---- MODULE Spec2Model ----
(***************************************************************************)
(* Model of the transition-triplet extractor (src/app.py).                 *)
(*                                                                         *)
(* A Python str is modelled as a sequence of one-character strings, so     *)
(* that strip(), the substring test, re.escape(), str.replace() and the    *)
(* regular-expression search are computed character by character.  List    *)
(* positions are 1-based (TLA+ sequences); offsets inside a narrative are  *)
(* 0-based, as match.span() reports them.                                  *)
(***************************************************************************)
EXTENDS Integers, Sequences, FiniteSets, TLC

(***************************************************************************)
(* Characters and str helpers                                              *)
(***************************************************************************)

\* Characters str.strip() removes and the regex class \s accepts.
Whitespace == {" ", "\t"}

\* Characters of the model's alphabet that the regex class \w rejects.
NonWordChars == Whitespace \cup {",", "'", "[", "]", "\\", "^", "*", "(", ")", "?", ":", "|", "-", "."}

IsSpace(c) == c \in Whitespace

IsWord(c) == c \notin NonWordChars

\* Case folding done by re.IGNORECASE, for the letters of the alphabet.
Fold(c) ==
    CASE c = "A" -> "a"
      [] c = "B" -> "b"
      [] c = "Q" -> "q"
      [] c = "U" -> "u"
      [] c = "E" -> "e"
      [] c = "X" -> "x"
      [] OTHER -> c

RECURSIVE LStrip(_)
LStrip(s) ==
    IF s /= << >> /\ IsSpace(Head(s)) THEN LStrip(Tail(s)) ELSE s

RECURSIVE RStrip(_)
RStrip(s) ==
    IF s /= << >> /\ IsSpace(s[Len(s)]) THEN RStrip(SubSeq(s, 1, Len(s) - 1)) ELSE s

\* str.strip()
Strip(s) == RStrip(LStrip(s))

\* s[off:].startswith(sub), off a 0-based offset
StartsWithAt(s, sub, off) ==
    /\ off + Len(sub) <= Len(s)
    /\ \A k \in 1..Len(sub) : s[off + k] = sub[k]

\* sub in s
Contains(s, sub) == \E off \in 0..Len(s) : StartsWithAt(s, sub, off)

\* s.endswith(sub)
EndsWith(s, sub) ==
    Len(sub) <= Len(s) /\ StartsWithAt(s, sub, Len(s) - Len(sub))

\* s.replace(old, new): left to right, non-overlapping (old is never empty here)
RECURSIVE Replace(_, _, _)
Replace(s, old, new) ==
    IF s = << >> THEN << >>
    ELSE IF StartsWithAt(s, old, 0)
         THEN new \o Replace(SubSeq(s, Len(old) + 1, Len(s)), old, new)
         ELSE <<Head(s)>> \o Replace(Tail(s), old, new)

(***************************************************************************)
(* PatternBuilder: lines 109-130 of extract_all_raw_triplets               *)
(***************************************************************************)

\* Characters of the alphabet that re.escape() prefixes with a backslash.
EscapedChars == {" ", "\t", "[", "]", "\\", "^", "*", "(", ")", "?", "|", "-", "."}

RECURSIVE re_escape(_)
re_escape(s) ==
    IF s = << >> THEN << >>
    ELSE (IF Head(s) \in EscapedChars THEN <<"\\", Head(s)>> ELSE <<Head(s)>>)
         \o re_escape(Tail(s))

PLACEHOLDER == <<"[", "X", "X", "X", "]">>

\* r"[^,]*"
NOT_COMMA_STAR == <<"[", "^", ",", "]", "*">>

QUE == <<" ", "q", "u", "e">>

\* r"(?:\sque|\squ\'\w*)"
QUE_ALT == <<"(", "?", ":", "\\", "s", "q", "u", "e", "|",
              "\\", "s", "q", "u", "\\", "'", "\\", "w", "*", ")">>

\* A builder without the elision variant
QueSuffixNoElision(p) == p

\* Step 2 of the builder: the elision variant for a phrase ending in " que".
QueSuffix(p) ==
    IF EndsWith(p, re_escape(QUE))
    THEN SubSeq(p, 1, Len(p) - Len(re_escape(QUE))) \o QUE_ALT
    ELSE p

\* The builder without its placeholder adjustment: [XXX] stays a literal.
PlaceholderKeptLiteral(p) == p

\* Step 1 of the builder: the placeholder [XXX] becomes [^,]*.
PlaceholderSubst(p) == Replace(p, re_escape(PLACEHOLDER), NOT_COMMA_STAR)

\* pattern_str, as handed to re.compile
pattern_str(transition_from_list) ==
    QueSuffix(PlaceholderSubst(re_escape(transition_from_list)))

\* re.compile: the pattern text parsed into its elements.  The builder emits
\* only escaped literals, plain literals, [^,]* and the elision group, and
\* re_escape leaves none of "[" or "(" unescaped, so the parse is unambiguous.
RECURSIVE Compile(_)
Compile(p) ==
    IF p = << >> THEN << >>
    ELSE IF StartsWithAt(p, NOT_COMMA_STAR, 0)
         THEN <<[kind |-> "not_comma_star", ch |-> ""]>>
              \o Compile(SubSeq(p, Len(NOT_COMMA_STAR) + 1, Len(p)))
    ELSE IF StartsWithAt(p, QUE_ALT, 0)
         THEN <<[kind |-> "que_alt", ch |-> ""]>>
              \o Compile(SubSeq(p, Len(QUE_ALT) + 1, Len(p)))
    ELSE IF Head(p) = "\\" /\ Len(p) >= 2
         THEN <<[kind |-> "lit", ch |-> p[2]]>> \o Compile(SubSeq(p, 3, Len(p)))
    ELSE <<[kind |-> "lit", ch |-> Head(p)]>> \o Compile(Tail(p))

compiled_pattern(transition_from_list) == Compile(pattern_str(transition_from_list))

(***************************************************************************)
(* The regular-expression engine: backtracking, first alternative first,   *)
(* greedy repetition, re.IGNORECASE.                                       *)
(***************************************************************************)

\* Greedy [^,]*: the number of consecutive non-comma characters from offset p.
RECURSIVE NotCommaRun(_, _)
NotCommaRun(s, p) ==
    IF p < Len(s) /\ s[p + 1] /= "," THEN 1 + NotCommaRun(s, p + 1) ELSE 0

CharAt(s, p) == IF p < Len(s) THEN s[p + 1] ELSE ""

\* Literal comparison under re.IGNORECASE
LitMatches(c, d) == Fold(c) = Fold(d)

\* Greedy \w* of the elision group
RECURSIVE WordRun(_, _)
WordRun(s, p) ==
    IF p < Len(s) /\ IsWord(s[p + 1]) THEN 1 + WordRun(s, p + 1) ELSE 0

\* MatchAt: the end offset of the first match (in backtracking order) of
\* pat[k..] at offset p that ends at or after minEnd, or -1.
RECURSIVE MatchAt(_, _, _, _, _)
RECURSIVE StarTry(_, _, _, _, _, _)
StarTry(pat, k, s, lo, q, minEnd) ==
    IF q < lo THEN -1
    ELSE LET r == MatchAt(pat, k + 1, s, q, minEnd)
         IN IF r /= -1 THEN r ELSE StarTry(pat, k, s, lo, q - 1, minEnd)

MatchAt(pat, k, s, p, minEnd) ==
    IF k > Len(pat) THEN (IF p >= minEnd THEN p ELSE -1)
    ELSE LET e == pat[k] IN
      CASE e.kind = "lit" ->
             IF p < Len(s) /\ LitMatches(s[p + 1], e.ch)
             THEN MatchAt(pat, k + 1, s, p + 1, minEnd) ELSE -1
        [] e.kind = "not_comma_star" ->
             StarTry(pat, k, s, p, p + NotCommaRun(s, p), minEnd)
        [] e.kind = "que_alt" ->
             LET stem == /\ IsSpace(CharAt(s, p))
                         /\ LitMatches(CharAt(s, p + 1), "q")
                         /\ LitMatches(CharAt(s, p + 2), "u")
                 first == IF stem /\ LitMatches(CharAt(s, p + 3), "e")
                          THEN MatchAt(pat, k + 1, s, p + 4, minEnd) ELSE -1
             IN IF first /= -1 THEN first
                ELSE IF stem /\ CharAt(s, p + 3) = "'"
                     THEN StarTry(pat, k, s, p + 4, p + 4 + WordRun(s, p + 4), minEnd)
                     ELSE -1

\* compiled_pattern.finditer(s): the spans [start, end) found scanning from
\* offset pos.  After an empty match the next attempt at the same offset
\* must advance (CPython >= 3.7).
RECURSIVE Scan(_, _, _, _)
Scan(pat, s, pos, mustAdvance) ==
    IF pos > Len(s) THEN << >>
    ELSE LET e == MatchAt(pat, 1, s, pos, IF mustAdvance THEN pos + 1 ELSE pos)
         IN IF e = -1 THEN Scan(pat, s, pos + 1, FALSE)
            ELSE <<[start |-> pos, end |-> e]>> \o Scan(pat, s, e, e = pos)

finditer(pat, s) == Scan(pat, s, 0, FALSE)

(***************************************************************************)
(* TripletExtractor: extract_all_raw_triplets                              *)
(***************************************************************************)

\* The matches in the order the two loops visit them: transitions_list entry
\* by entry (empty entries skipped), and for each entry the finditer spans.
RECURSIVE MatchesFrom(_, _, _)
MatchesFrom(narrative_paragraph, transitions_list, j) ==
    IF j > Len(transitions_list) THEN << >>
    ELSE LET transition_from_list == transitions_list[j]
             spans == IF transition_from_list = << >> THEN << >>
                      ELSE finditer(compiled_pattern(transition_from_list),
                                    narrative_paragraph)
         IN [k \in 1..Len(spans) |->
                [entry |-> j, start |-> spans[k].start, end |-> spans[k].end]]
            \o MatchesFrom(narrative_paragraph, transitions_list, j + 1)

Matches(narrative_paragraph, transitions_list) ==
    MatchesFrom(narrative_paragraph, transitions_list, 1)

\* narrative_paragraph[start:end]
matched_transition_in_text(narrative_paragraph, m) ==
    SubSeq(narrative_paragraph, m.start + 1, m.end)

\* The matched text put in the "transition" field
TransitionAsMatched(narrative_paragraph, transitions_list, m) ==
    matched_transition_in_text(narrative_paragraph, m)

\* The "transition" field of an emitted triplet
TransitionField(narrative_paragraph, transitions_list, m) ==
    transitions_list[m.entry]

\* narrative_paragraph[end:].strip()
ParagraphB(narrative_paragraph, m) ==
    Strip(SubSeq(narrative_paragraph, m.end + 1, Len(narrative_paragraph)))

TripletOf(narrative_paragraph, transitions_list, m) ==
    [paragraph_a |-> Strip(SubSeq(narrative_paragraph, 1, m.start)),
     transition  |-> TransitionField(narrative_paragraph, transitions_list, m),
     paragraph_b |-> ParagraphB(narrative_paragraph, m)]

extract_all_raw_triplets(narrative_paragraph, transitions_list) ==
    LET ms == Matches(narrative_paragraph, transitions_list)
    IN [k \in 1..Len(ms) |-> TripletOf(narrative_paragraph, transitions_list, ms[k])]

(***************************************************************************)
(* ArticleParser: lines 60-84 of extract_articles_from_docx                *)
(***************************************************************************)

MARKER ==
    <<"À", " ", "s", "a", "v", "o", "i", "r", " ", "é", "g",
      "a", "l", "e", "m", "e", "n", "t", " ", "d", "a", "n",
      "s", " ", "v", "o", "t", "r", "e", " ", "d", "é", "p",
      "a", "r", "t", "e", "m", "e", "n", "t">>

\* A marker test that asks for the marker alone on its line.
IsMarkerLineExact(text) == text = MARKER

\* "À savoir également dans votre département" in text
IsMarkerLine(text) == Contains(text, MARKER)

\* The loop started at the first block (all_raw_blocks[0:])
BlocksFromFirst(blocks) == blocks

\* all_raw_blocks[1:]
BlocksToParse(blocks) == SubSeq(blocks, 2, Len(blocks))

\* [t.strip() for t in candidates if t.strip()]
RECURSIVE StripNonEmpty(_)
StripNonEmpty(candidates) ==
    IF candidates = << >> THEN << >>
    ELSE (IF Strip(Head(candidates)) /= << >> THEN <<Strip(Head(candidates))>> ELSE << >>)
         \o StripNonEmpty(Tail(candidates))

\* The loop over the blocks: blocks shorter than two lines are skipped.
RECURSIVE ArticlesOf(_)
ArticlesOf(blocks) ==
    IF blocks = << >> THEN << >>
    ELSE LET block == Head(blocks)
         IN (IF Len(block) < 2 THEN << >>
             ELSE <<[narrative_paragraph |-> block[1],
                     transitions_list    |-> StripNonEmpty(Tail(block))]>>)
            \o ArticlesOf(Tail(blocks))

parsed_articles(blocks) ==
    IF Len(blocks) < 2 THEN << >> ELSE ArticlesOf(BlocksToParse(blocks))

\* The same loop over the blocks' paragraph numbers: for each article, the
\* paragraphs of the document its narrative and its transitions were read from.
RECURSIVE KeptTransitions(_, _)
KeptTransitions(lines, numbers) ==
    IF lines = << >> THEN << >>
    ELSE (IF Strip(Head(lines)) /= << >> THEN <<Head(numbers)>> ELSE << >>)
         \o KeptTransitions(Tail(lines), Tail(numbers))

RECURSIVE ArticleSourcesOf(_, _)
ArticleSourcesOf(blocks, numbers) ==
    IF blocks = << >> THEN << >>
    ELSE (IF Len(Head(blocks)) < 2 THEN << >>
          ELSE <<[narrative   |-> Head(numbers)[1],
                  transitions |-> KeptTransitions(Tail(Head(blocks)), Tail(Head(numbers)))]>>)
         \o ArticleSourcesOf(Tail(blocks), Tail(numbers))

parsed_sources(blocks, numbers) ==
    IF Len(blocks) < 2 THEN << >>
    ELSE ArticleSourcesOf(BlocksToParse(blocks), BlocksToParse(numbers))

(***************************************************************************)
(* UsageCapper and OutputMultiplexer: generate_output_files                *)
(***************************************************************************)

\* def generate_output_files(..., max_uses_per_transition=3)
DEFAULT_MAX_USES == 3

\* transition_usage_tracker is a defaultdict(int): a function on the keys read
\* so far; a key never read counts 0.
UsageOf(tracker, transition) ==
    IF transition \in DOMAIN tracker THEN tracker[transition] ELSE 0

SetUsage(tracker, transition, n) ==
    [t \in DOMAIN tracker \cup {transition} |->
        IF t = transition THEN n ELSE tracker[t]]

\* A cap test that lets one use too many through (<= for <)
UnderCapInclusive(tracker, transition, max_uses) ==
    UsageOf(tracker, transition) <= max_uses

\* transition_usage_tracker[transition] < max_uses_per_transition
UnderCap(tracker, transition, max_uses) ==
    UsageOf(tracker, transition) < max_uses

\* An accepted triplet put at the front of the list (insert(0, ...) for append)
AcceptAtFront(final, triplet) == <<triplet>> \o final

\* final_triplets.append(triplet)
Accept(final, triplet) == Append(final, triplet)

\* duplicates_tracker is a defaultdict(list), kept here in dict (insertion)
\* order as a sequence of [key, items].
HasKey(dups, transition) == \E i \in 1..Len(dups) : dups[i].key = transition

\* duplicates_tracker[transition].append(triplet)
AppendDuplicate(dups, triplet) ==
    IF HasKey(dups, triplet.transition)
    THEN [i \in 1..Len(dups) |->
            IF dups[i].key = triplet.transition
            THEN [dups[i] EXCEPT !.items = Append(@, triplet)]
            ELSE dups[i]]
    ELSE Append(dups, [key |-> triplet.transition, items |-> <<triplet>>])

\* A report line whose total leaves out the accepted uses
RejectedLineDuplicatesOnly(tracker, d) ==
    [transition  |-> d.key,
     total       |-> Len(d.items),
     exceeded_by |-> Len(d.items)]

\* One line of rejected_fewshots_content,
\* f"Transition: '{transition}' used {total} times (exceeded by {exceeded_by})"
RejectedLine(tracker, d) ==
    [transition  |-> d.key,
     total       |-> UsageOf(tracker, d.key) + Len(d.items),
     exceeded_by |-> Len(d.items)]

RejectedFewshotsContent(tracker, dups) ==
    LET kept == SelectSeq(dups, LAMBDA d : d.items /= << >>)
    IN [i \in 1..Len(kept) |-> RejectedLine(tracker, kept[i])]

TransitionsOf(triplets) == {triplets[i].transition : i \in 1..Len(triplets)}

\* all_found_transitions_counts[transition]
RawCount(raw, transition) ==
    Cardinality({i \in 1..Len(raw) : raw[i].transition = transition})

RECURSIVE TotalDuplicates(_)
TotalDuplicates(dups) ==
    IF dups = << >> THEN 0 ELSE Len(Head(dups).items) + TotalDuplicates(Tail(dups))

\* The output representations, in the order the function produces them.
OUTPUT_ORDER ==
    <<"fewshot_examples.json", "fewshots_rejected.txt", "transitions_only.txt",
      "transitions_only_rejected.txt", "fewshot_examples.jsonl",
      "fewshots-fineTuning_rejected.txt">>

OutputNames == {OUTPUT_ORDER[k] : k \in 1..Len(OUTPUT_ORDER)}

\* The number of entries of the k-th representation (the value recorded in
\* generated_files_info).
EntryCount(k, raw, final, tracker, dups) ==
    CASE k = 1 -> Len(final)
      [] k = 2 -> Len(RejectedFewshotsContent(tracker, dups))
      [] k = 3 -> Cardinality(TransitionsOf(final))
      [] k = 4 -> Cardinality({t \in TransitionsOf(raw) : RawCount(raw, t) > 1})
      [] k = 5 -> Len(final)
      [] k = 6 -> TotalDuplicates(dups)

\* Whether the k-th block opens its file: the name is selected and, for the
\* three rejection reports, the content is not empty.
OpensFile(k, selected, raw, final, tracker, dups) ==
    /\ OUTPUT_ORDER[k] \in selected
    /\ k \in {2, 4, 6} => EntryCount(k, raw, final, tracker, dups) > 0

(***************************************************************************)
(* Inputs                                                                  *)
(***************************************************************************)

MaxParas == 5
MaxChunks == 2
MaxTrans == 2
MaxArticles == 2
MaxRaw == 5
MaxCap == 3

\* All sequences over S of length at most n
SeqsUpTo(S, n) == UNION {[1..k -> S] : k \in 0..n}

\* Paragraph texts as the document reader gives them (before strip()).
P_EMPTY == << >>
P_MARKER == <<" ", "-", " ">> \o MARKER
P_NEAR_MARKER == <<"à">> \o Tail(MARKER)
P_NARRATIVE == <<"a", " ", "A", " ", "a", " ", "a">>
P_TRANSITION == <<" ", "a", " ">>

ParaSet == {P_EMPTY, P_MARKER, P_NEAR_MARKER, P_NARRATIVE, P_TRANSITION}

Documents == SeqsUpTo(ParaSet, MaxParas)

ALL_OUTPUTS == OutputNames

SelectedChoices == {ALL_OUTPUTS, {"transitions_only.txt", "fewshot_examples.jsonl"}}

\* Narratives for the extractor alone: up to MaxChunks pieces glued together.
NarrChunks ==
    { <<"a", " ", "q", "u", "e">>,
      <<"a", " ", "q", "u", "'">>,
      <<"A", "\t", "Q", "U", "E">>,
      <<",">>,
      <<"b">>,
      <<" ">> }

RECURSIVE Glue(_)
Glue(pieces) == IF pieces = << >> THEN << >> ELSE Head(pieces) \o Glue(Tail(pieces))

Narratives == {Glue(c) : c \in SeqsUpTo(NarrChunks, MaxChunks)}

PH_A_QUE == <<"a", " ", "q", "u", "e">>
PH_XXX_QUE == PLACEHOLDER \o QUE
PH_A_XXX_COMMA == <<"a">> \o PLACEHOLDER \o <<",">>
PH_A == <<"a">>

PH_XXX == PLACEHOLDER

Phrases == {PH_A_QUE, PH_XXX_QUE, PH_A_XXX_COMMA, PH_A, PH_XXX, << >>}

RichArticles ==
    [narrative_paragraph : Narratives, transitions_list : SeqsUpTo(Phrases, MaxTrans)]

SmallArticles ==
    { [narrative_paragraph |-> PH_A_QUE \o <<"a", " ", "q", "u", "'", "b", " ", "b">>,
       transitions_list |-> <<PH_A_QUE, PH_A>>],
      [narrative_paragraph |-> PH_A_QUE \o PH_A_QUE,
       transitions_list |-> <<PH_A, PH_A_QUE>>] }

\* Phrases whose placeholder is followed by text that recurs in a narrative.
PH_XXX_B == PLACEHOLDER \o <<"b">>
PH_XXX_SP_XXX == PLACEHOLDER \o <<" ">> \o PLACEHOLDER

PlaceholderArticles ==
    [narrative_paragraph : Narratives,
     transitions_list : {<<PH_XXX_B>>, <<PH_XXX_SP_XXX>>}]

ArticleLists ==
    {<<a>> : a \in RichArticles \cup PlaceholderArticles}
      \cup SeqsUpTo(SmallArticles, MaxArticles)

\* Raw triplets for the capper alone.
TX == <<"x">>
TY == <<"y">>
TripletSet ==
    { [paragraph_a |-> TX, transition |-> <<"a">>, paragraph_b |-> TY],
      [paragraph_a |-> TY, transition |-> <<"a">>, paragraph_b |-> TX],
      [paragraph_a |-> TX, transition |-> <<"b">>, paragraph_b |-> TY] }

RawLists == SeqsUpTo(TripletSet, MaxRaw)

(***************************************************************************)
(* State                                                                   *)
(***************************************************************************)

VARIABLES
    doc_opens,                \* whether Document(doc_path) succeeds
    paragraphs,               \* doc.paragraphs, each paragraph's text
    selected_outputs,         \* argument of simulate_streamlit_app_logic
    max_uses_per_transition,  \* argument of generate_output_files
    pc,                       \* where control is
    para_i,                   \* the paragraph the segmenter loop is at
    current_block_content,
    all_raw_blocks,
    current_block_numbers,    \* the paragraph numbers of current_block_content
    all_block_numbers,        \* the paragraph numbers of all_raw_blocks
    st_error,                 \* whether st.error(...) was called
    articles,                 \* what extract_articles_from_docx returned
    article_sources,          \* the paragraph numbers each article was read from
    art_i,                    \* the article the pipeline loop is at
    all_raw_triplets,
    raw_matches,              \* per raw triplet: its article, entry and span
    cap_i,                    \* the raw triplet the capper loop is at
    final_triplets,
    transition_usage_tracker,
    duplicates_tracker,
    out_k,                    \* the output block control is at (1..6)
    files,                    \* per output name: "absent", "written", "partial"
    generated_files_info,
    rejected_fewshots_content,
    result                    \* what simulate_streamlit_app_logic returned

inputVars == <<doc_opens, paragraphs, selected_outputs, max_uses_per_transition>>
segVars == <<para_i, current_block_content, all_raw_blocks,
             current_block_numbers, all_block_numbers>>
artVars == <<articles, article_sources>>
rawVars == <<art_i, all_raw_triplets, raw_matches>>
capVars == <<cap_i, final_triplets, transition_usage_tracker, duplicates_tracker>>
outVars == <<out_k, files, generated_files_info, rejected_fewshots_content>>

vars == <<inputVars, pc, segVars, st_error, artVars, rawVars, capVars, outVars, result>>

NoDuplicates == << >>
NoUsage == [t \in {} |-> 0]

\* Everything but the inputs, the articles and the raw triplets, as it is when
\* nothing has run yet.
Blank ==
    /\ para_i = 1
    /\ current_block_content = << >>
    /\ all_raw_blocks = << >>
    /\ current_block_numbers = << >>
    /\ all_block_numbers = << >>
    /\ st_error = FALSE
    /\ art_i = 1
    /\ raw_matches = << >>
    /\ cap_i = 1
    /\ final_triplets = << >>
    /\ transition_usage_tracker = NoUsage
    /\ duplicates_tracker = NoDuplicates
    /\ out_k = 1
    /\ files = [n \in OutputNames |-> "absent"]
    /\ generated_files_info = << >>
    /\ rejected_fewshots_content = << >>
    /\ result = [kind |-> "none"]

\* simulate_streamlit_app_logic is called on a document.
Init ==
    /\ \/ doc_opens = TRUE /\ paragraphs \in Documents
       \/ doc_opens = FALSE /\ paragraphs = << >>
    /\ selected_outputs \in SelectedChoices
    /\ max_uses_per_transition = DEFAULT_MAX_USES
    /\ pc = "load"
    /\ articles = << >>
    /\ article_sources = << >>
    /\ all_raw_triplets = << >>
    /\ Blank

\* The pipeline loop of simulate_streamlit_app_logic is entered with a list of
\* articles.
InitExtract ==
    /\ doc_opens = TRUE
    /\ paragraphs = << >>
    /\ selected_outputs = ALL_OUTPUTS
    /\ max_uses_per_transition = DEFAULT_MAX_USES
    /\ pc = "extract"
    /\ articles \in ArticleLists
    /\ article_sources = << >>
    /\ all_raw_triplets = << >>
    /\ Blank

\* generate_output_files is called with a list of raw triplets and a cap.
InitCap ==
    /\ doc_opens = TRUE
    /\ paragraphs = << >>
    /\ selected_outputs \in SelectedChoices
    /\ max_uses_per_transition \in 1..MaxCap
    /\ pc = "generate"
    /\ articles = << >>
    /\ article_sources = << >>
    /\ all_raw_triplets \in RawLists
    /\ Blank

(***************************************************************************)
(* extract_articles_from_docx                                              *)
(***************************************************************************)

\* doc = Document(doc_path) succeeds.
OpenDocument ==
    /\ pc = "load"
    /\ doc_opens
    /\ pc' = "segment"
    /\ UNCHANGED <<inputVars, segVars, st_error, artVars, rawVars, capVars, outVars, result>>

\* Document(doc_path) raises: st.error(...) and return [].
OpenFails ==
    /\ pc = "load"
    /\ ~doc_opens
    /\ st_error' = TRUE
    /\ articles' = << >>
    /\ article_sources' = << >>
    /\ pc' = "extract"
    /\ UNCHANGED <<inputVars, segVars, rawVars, capVars, outVars, result>>

\* One iteration of "for para in doc.paragraphs".
SegmentParagraph ==
    /\ pc = "segment"
    /\ para_i <= Len(paragraphs)
    /\ LET text == Strip(paragraphs[para_i])
       IN IF IsMarkerLine(text)
          THEN /\ all_raw_blocks' =
                    IF current_block_content /= << >>
                    THEN Append(all_raw_blocks, current_block_content)
                    ELSE all_raw_blocks
               /\ all_block_numbers' =
                    IF current_block_content /= << >>
                    THEN Append(all_block_numbers, current_block_numbers)
                    ELSE all_block_numbers
               /\ current_block_content' = << >>
               /\ current_block_numbers' = << >>
          ELSE IF text /= << >>
          THEN /\ current_block_content' = Append(current_block_content, text)
               /\ current_block_numbers' = Append(current_block_numbers, para_i)
               /\ UNCHANGED <<all_raw_blocks, all_block_numbers>>
          ELSE UNCHANGED <<current_block_content, current_block_numbers,
                           all_raw_blocks, all_block_numbers>>
    /\ para_i' = para_i + 1
    /\ UNCHANGED <<inputVars, pc, st_error, artVars, rawVars, capVars, outVars, result>>

\* After the loop: the very last block is added.
FlushLastBlock ==
    /\ pc = "segment"
    /\ para_i > Len(paragraphs)
    /\ all_raw_blocks' =
         IF current_block_content /= << >>
         THEN Append(all_raw_blocks, current_block_content)
         ELSE all_raw_blocks
    /\ all_block_numbers' =
         IF current_block_content /= << >>
         THEN Append(all_block_numbers, current_block_numbers)
         ELSE all_block_numbers
    /\ pc' = "parse"
    /\ UNCHANGED <<inputVars, para_i, current_block_content, current_block_numbers,
                   st_error, artVars, rawVars, capVars, outVars, result>>

\* Lines 60-84: the blocks become articles, which the function returns.
ParseArticles ==
    /\ pc = "parse"
    /\ articles' = parsed_articles(all_raw_blocks)
    /\ article_sources' = parsed_sources(all_raw_blocks, all_block_numbers)
    /\ pc' = "extract"
    /\ UNCHANGED <<inputVars, segVars, st_error, rawVars, capVars, outVars, result>>

(***************************************************************************)
(* simulate_streamlit_app_logic: the loop over the articles                *)
(***************************************************************************)

\* An article's triplets put before those of the earlier articles
ExtendAtFront(raw, more) == more \o raw

\* all_raw_triplets.extend(raw_triplets_for_article)
Extend(raw, more) == raw \o more

\* One iteration of "for article in articles".
ExtractArticle ==
    /\ pc = "extract"
    /\ art_i <= Len(articles)
    /\ LET narrative_p == articles[art_i].narrative_paragraph
           transitions_l == articles[art_i].transitions_list
           ms == Matches(narrative_p, transitions_l)
       IN /\ all_raw_triplets' =
               Extend(all_raw_triplets, extract_all_raw_triplets(narrative_p, transitions_l))
          /\ raw_matches' =
               Extend(raw_matches,
                      [k \in 1..Len(ms) |->
                          [article |-> art_i, entry |-> ms[k].entry,
                           start |-> ms[k].start, end |-> ms[k].end]])
    /\ art_i' = art_i + 1
    /\ UNCHANGED <<inputVars, pc, segVars, st_error, artVars, capVars, outVars, result>>

\* Line 308: generate_output_files(all_raw_triplets, selected_outputs, output_dir)
CallGenerate ==
    /\ pc = "extract"
    /\ art_i > Len(articles)
    /\ pc' = "generate"
    /\ UNCHANGED <<inputVars, segVars, st_error, artVars, rawVars, capVars, outVars, result>>

(***************************************************************************)
(* generate_output_files                                                   *)
(***************************************************************************)

\* Lines 180-187: os.makedirs succeeds, the trackers start empty.
MakeOutputDir ==
    /\ pc = "generate"
    /\ generated_files_info' = << >>
    /\ final_triplets' = << >>
    /\ transition_usage_tracker' = NoUsage
    /\ duplicates_tracker' = NoDuplicates
    /\ cap_i' = 1
    /\ pc' = IF all_raw_triplets = << >> THEN "out" ELSE "cap"
    /\ UNCHANGED <<inputVars, segVars, st_error, artVars, rawVars,
                   out_k, files, rejected_fewshots_content, result>>

\* os.makedirs raises: except Exception -> raise RuntimeError.
MakeOutputDirFails ==
    /\ pc = "generate"
    /\ pc' = "raised"
    /\ UNCHANGED <<inputVars, segVars, st_error, artVars, rawVars, capVars, outVars, result>>

\* One iteration of "for triplet in all_raw_triplets" (lines 189-195).
CapTriplet ==
    /\ pc = "cap"
    /\ cap_i <= Len(all_raw_triplets)
    /\ LET triplet == all_raw_triplets[cap_i]
           transition == triplet.transition
       IN IF UnderCap(transition_usage_tracker, transition, max_uses_per_transition)
          THEN /\ final_triplets' = Accept(final_triplets, triplet)
               /\ transition_usage_tracker' =
                    SetUsage(transition_usage_tracker, transition,
                             UsageOf(transition_usage_tracker, transition) + 1)
               /\ UNCHANGED duplicates_tracker
          ELSE /\ duplicates_tracker' = AppendDuplicate(duplicates_tracker, triplet)
               /\ transition_usage_tracker' =
                    SetUsage(transition_usage_tracker, transition,
                             UsageOf(transition_usage_tracker, transition))
               /\ UNCHANGED final_triplets
    /\ cap_i' = cap_i + 1
    /\ pc' = IF cap_i = Len(all_raw_triplets) THEN "out" ELSE "cap"
    /\ UNCHANGED <<inputVars, segVars, st_error, artVars, rawVars, outVars, result>>

\* rejected_fewshots_content is computed in the second block (lines 205-209).
ContentAfter(k) ==
    IF k = 2
    THEN RejectedFewshotsContent(transition_usage_tracker, duplicates_tracker)
    ELSE rejected_fewshots_content

\* The k-th output block runs to its end: the file is written if the block
\* opens it, and its entry count recorded.
WriteOutput ==
    /\ pc = "out"
    /\ LET name == OUTPUT_ORDER[out_k]
           opens == OpensFile(out_k, selected_outputs, all_raw_triplets, final_triplets,
                              transition_usage_tracker, duplicates_tracker)
           count == EntryCount(out_k, all_raw_triplets, final_triplets,
                               transition_usage_tracker, duplicates_tracker)
       IN /\ files' = IF opens THEN [files EXCEPT ![name] = "written"] ELSE files
          /\ generated_files_info' =
               IF opens THEN Append(generated_files_info, [name |-> name, count |-> count])
               ELSE generated_files_info
    /\ rejected_fewshots_content' = ContentAfter(out_k)
    /\ out_k' = out_k + 1
    /\ pc' = IF out_k = Len(OUTPUT_ORDER) THEN "returned" ELSE "out"
    /\ UNCHANGED <<inputVars, segVars, st_error, artVars, rawVars, capVars, result>>

\* A failed write that is swallowed: the later blocks run all the same
OutputFailsSwallowed ==
    /\ pc = "out"
    /\ OpensFile(out_k, selected_outputs, all_raw_triplets, final_triplets,
                 transition_usage_tracker, duplicates_tracker)
    /\ files' = [files EXCEPT ![OUTPUT_ORDER[out_k]] = "partial"]
    /\ rejected_fewshots_content' = ContentAfter(out_k)
    /\ out_k' = out_k + 1
    /\ pc' = IF out_k = Len(OUTPUT_ORDER) THEN "returned" ELSE "out"
    /\ UNCHANGED <<inputVars, segVars, st_error, artVars, rawVars, capVars,
                   generated_files_info, result>>

\* The k-th output block raises while opening or writing its file (the file
\* is then untouched or partly written): except Exception -> raise
\* RuntimeError.  Nothing is retried and the later blocks do not run.
OutputFails ==
    /\ pc = "out"
    /\ OpensFile(out_k, selected_outputs, all_raw_triplets, final_triplets,
                 transition_usage_tracker, duplicates_tracker)
    /\ \E partly \in BOOLEAN :
         files' = IF partly THEN [files EXCEPT ![OUTPUT_ORDER[out_k]] = "partial"]
                  ELSE files
    /\ rejected_fewshots_content' = ContentAfter(out_k)
    /\ pc' = "raised"
    /\ UNCHANGED <<inputVars, segVars, st_error, artVars, rawVars, capVars,
                   out_k, generated_files_info, result>>

(***************************************************************************)
(* simulate_streamlit_app_logic: the result                                *)
(***************************************************************************)

\* Lines 310-315: return results_summary
ReturnSummary ==
    /\ pc = "returned"
    /\ result' = [kind |-> "summary",
                  generated_files |-> generated_files_info,
                  total_valid_examples |-> Len(final_triplets)]
    /\ pc' = "done"
    /\ UNCHANGED <<inputVars, segVars, st_error, artVars, rawVars, capVars, outVars>>

\* Lines 317-320: except Exception -> return {"error": ...}
CatchError ==
    /\ pc = "raised"
    /\ result' = [kind |-> "error"]
    /\ pc' = "done"
    /\ UNCHANGED <<inputVars, segVars, st_error, artVars, rawVars, capVars, outVars>>

(***************************************************************************)
(* Specifications                                                          *)
(***************************************************************************)

NextGenerate ==
    \/ MakeOutputDir
    \/ MakeOutputDirFails
    \/ CapTriplet
    \/ WriteOutput
    \/ OutputFails

Next ==
    \/ OpenDocument
    \/ OpenFails
    \/ SegmentParagraph
    \/ FlushLastBlock
    \/ ParseArticles
    \/ ExtractArticle
    \/ CallGenerate
    \/ NextGenerate
    \/ ReturnSummary
    \/ CatchError

\* The whole pipeline, from a document.
Spec == Init /\ [][Next]_vars

\* extract_all_raw_triplets over a list of articles.
SpecExtract == InitExtract /\ [][ExtractArticle]_vars

\* generate_output_files on a list of raw triplets.
SpecCap == InitCap /\ [][NextGenerate]_vars

(***************************************************************************)
(* Properties of the usage capper (SpecCap)                                *)
(***************************************************************************)

Min(a, b) == IF a < b THEN a ELSE b
Max(a, b) == IF a > b THEN a ELSE b

\* The capper loop has processed every raw triplet.
CapDone == cap_i > Len(all_raw_triplets)

\* The triplets held in duplicates[T]
DuplicatesOf(transition) ==
    IF HasKey(duplicates_tracker, transition)
    THEN duplicates_tracker[CHOOSE i \in 1..Len(duplicates_tracker) :
                                duplicates_tracker[i].key = transition].items
    ELSE << >>

CountIn(triplets, x) == Cardinality({i \in 1..Len(triplets) : triplets[i] = x})

RECURSIVE CountInDuplicates(_, _)
CountInDuplicates(dups, x) ==
    IF dups = << >> THEN 0
    ELSE CountIn(Head(dups).items, x) + CountInDuplicates(Tail(dups), x)

\* C1: once every raw triplet is processed, for every transition T the
\* number of accepted triplets with transition T (and the tracker's count) is
\* min(occurrences of T, cap), duplicates[T] holds max(0, occurrences - cap)
\* triplets, and accepted and duplicate triplets together are exactly the raw
\* triplets (each triplet as many times as in the raw sequence).
C1_CapCounts ==
    CapDone =>
      /\ \A t \in TransitionsOf(all_raw_triplets) :
           LET total == RawCount(all_raw_triplets, t)
           IN /\ RawCount(final_triplets, t) = Min(total, max_uses_per_transition)
              /\ UsageOf(transition_usage_tracker, t) = Min(total, max_uses_per_transition)
              /\ Len(DuplicatesOf(t)) = Max(0, total - max_uses_per_transition)
      /\ \A i \in 1..Len(duplicates_tracker) :
           duplicates_tracker[i].key \in TransitionsOf(all_raw_triplets)
      /\ \A x \in {all_raw_triplets[i] : i \in 1..Len(all_raw_triplets)}
               \cup {final_triplets[i] : i \in 1..Len(final_triplets)} :
           CountIn(final_triplets, x) + CountInDuplicates(duplicates_tracker, x)
             = CountIn(all_raw_triplets, x)

\* A run with one transition over the cap and another under it.
C1_Witness ==
    /\ CapDone
    /\ \E t \in TransitionsOf(all_raw_triplets) :
         RawCount(all_raw_triplets, t) > max_uses_per_transition
    /\ \E t \in TransitionsOf(all_raw_triplets) :
         RawCount(all_raw_triplets, t) < max_uses_per_transition

\* The number of the occurrence of its transition that raw[i] is
OccurrenceNo(raw, i) ==
    Cardinality({j \in 1..i : raw[j].transition = raw[i].transition})

\* The subsequence of raw at the positions in I, in raw order
SubseqAt(raw, I) ==
    LET nth(k) == CHOOSE i \in I : Cardinality({j \in I : j <= i}) = k
    IN [k \in 1..Cardinality(I) |-> raw[nth(k)]]

\* C2: the accepted triplets are the raw triplets that are one of the first
\* cap occurrences of their transition, in raw order (a subsequence of the raw
\* sequence); duplicates[T] is the later occurrences of T, in raw order.
C2_FirstOccurrencesInOrder ==
    CapDone =>
      /\ final_triplets =
           SubseqAt(all_raw_triplets,
                    {i \in 1..Len(all_raw_triplets) :
                        OccurrenceNo(all_raw_triplets, i) <= max_uses_per_transition})
      /\ \A t \in TransitionsOf(all_raw_triplets) :
           DuplicatesOf(t) =
             SubseqAt(all_raw_triplets,
                      {i \in 1..Len(all_raw_triplets) :
                          /\ all_raw_triplets[i].transition = t
                          /\ OccurrenceNo(all_raw_triplets, i) > max_uses_per_transition})

\* The example of the specification: cap 3, a transition occurring 5 times
\* (with different contexts), three accepted and two rejected.
C2_Witness ==
    /\ CapDone
    /\ max_uses_per_transition = 3
    /\ RawCount(all_raw_triplets, <<"a">>) = 5
    /\ Len(final_triplets) = 3
    /\ Len(DuplicatesOf(<<"a">>)) = 2
    /\ final_triplets[1] /= final_triplets[2]
    /\ DuplicatesOf(<<"a">>)[1] /= DuplicatesOf(<<"a">>)[2]

\* rejected_fewshots_content has been computed (the second output block has
\* run, to its end or to a failure of its write).
ReportComputed == out_k > 2 \/ (out_k = 2 /\ pc = "raised")

LinesFor(transition) ==
    {i \in 1..Len(rejected_fewshots_content) :
        rejected_fewshots_content[i].transition = transition}

\* C9: the cap-exceeded report has exactly one line per transition whose
\* raw occurrences exceed the cap and none for any other transition; the
\* line's total is the raw occurrence count and its excess is total - cap.
C9_CapExceededReport ==
    ReportComputed =>
      /\ \A t \in TransitionsOf(all_raw_triplets) :
           LET total == RawCount(all_raw_triplets, t)
           IN IF total > max_uses_per_transition
              THEN /\ Cardinality(LinesFor(t)) = 1
                   /\ \A i \in LinesFor(t) :
                        /\ rejected_fewshots_content[i].total = total
                        /\ rejected_fewshots_content[i].exceeded_by
                             = total - max_uses_per_transition
              ELSE LinesFor(t) = {}
      /\ \A i \in 1..Len(rejected_fewshots_content) :
           rejected_fewshots_content[i].transition \in TransitionsOf(all_raw_triplets)

\* A report with a line for one transition and none for another that stayed
\* within the cap.
C9_Witness ==
    /\ ReportComputed
    /\ Len(rejected_fewshots_content) = 1
    /\ rejected_fewshots_content[1].exceeded_by >= 2
    /\ Cardinality(TransitionsOf(all_raw_triplets)) = 2

(***************************************************************************)
(* Properties of the extractor (SpecExtract)                               *)
(***************************************************************************)

NarrativeOf(k) == articles[raw_matches[k].article].narrative_paragraph

TransitionsListOf(k) == articles[raw_matches[k].article].transitions_list

\* The phrase whose pattern produced the k-th raw triplet
PhraseOf(k) == TransitionsListOf(k)[raw_matches[k].entry]

MatchedText(k) == matched_transition_in_text(NarrativeOf(k), raw_matches[k])

\* C3: the transition field of every emitted triplet is, character for
\* character, the entry of its article's transitions_list whose pattern
\* produced the match, whatever substring of the narrative was matched.
C3_TransitionIsListEntry ==
    /\ Len(raw_matches) = Len(all_raw_triplets)
    /\ \A k \in 1..Len(all_raw_triplets) :
         /\ raw_matches[k].entry \in 1..Len(TransitionsListOf(k))
         /\ all_raw_triplets[k].transition = PhraseOf(k)

\* Two triplets of one article whose matched text differs from the phrase:
\* one matched through the elision variant, one through the placeholder.
C3_Witness ==
    /\ \E k \in 1..Len(all_raw_triplets) :
         /\ PhraseOf(k) = PH_A_QUE
         /\ Contains(MatchedText(k), <<"q", "u", "'">>)
         /\ all_raw_triplets[k].transition = PH_A_QUE
    /\ \E k \in 1..Len(all_raw_triplets) :
         /\ PhraseOf(k) = PH_A_XXX_COMMA
         /\ MatchedText(k) /= PH_A_XXX_COMMA
         /\ all_raw_triplets[k].transition = PH_A_XXX_COMMA

\* m comes before n: earlier article, or same article and earlier entry, or
\* same entry and a match further left that ends before n starts.
ComesBefore(m, n) ==
    \/ m.article < n.article
    \/ m.article = n.article /\ m.entry < n.entry
    \/ m.article = n.article /\ m.entry = n.entry /\ m.start < n.start /\ m.end <= n.start

\* C6: the raw triplets are ordered by article, then by position of the
\* transition in the article's transitions_list, then by start offset of the
\* (non-overlapping) matches in the narrative.
C6_RawOrder ==
    /\ Len(raw_matches) = Len(all_raw_triplets)
    /\ \A k \in 1..Len(all_raw_triplets) :
         /\ raw_matches[k].article \in 1..(art_i - 1)
         /\ all_raw_triplets[k]
              = TripletOf(NarrativeOf(k), TransitionsListOf(k), raw_matches[k])
    /\ \A j, k \in 1..Len(raw_matches) :
         j < k => ComesBefore(raw_matches[j], raw_matches[k])

\* Two articles processed, both with triplets; one article with matches of
\* two entries; one entry with two matches.
C6_Witness ==
    /\ art_i > Len(articles)
    /\ Len(articles) = 2
    /\ \A a \in 1..2 : \E k \in 1..Len(raw_matches) : raw_matches[k].article = a
    /\ \E j, k \in 1..Len(raw_matches) :
         /\ raw_matches[j].article = raw_matches[k].article
         /\ raw_matches[j].entry < raw_matches[k].entry
    /\ \E j, k \in 1..Len(raw_matches) :
         /\ raw_matches[j].article = raw_matches[k].article
         /\ raw_matches[j].entry = raw_matches[k].entry
         /\ raw_matches[j].start < raw_matches[k].start

\* s[p:e] is the phrase text P (case-insensitively) with every [XXX]
\* replaced by a run of characters none of which is a comma.
RECURSIVE PhraseExpands(_, _, _, _)
PhraseExpands(P, s, p, e) ==
    IF P = << >> THEN p = e
    ELSE IF StartsWithAt(P, PLACEHOLDER, 0)
         THEN \E q \in p..e :
                /\ \A x \in (p + 1)..q : s[x] /= ","
                /\ PhraseExpands(SubSeq(P, Len(PLACEHOLDER) + 1, Len(P)), s, q, e)
         ELSE /\ p < e
              /\ Fold(s[p + 1]) = Fold(Head(P))
              /\ PhraseExpands(Tail(P), s, p + 1, e)

EndsWithQue(T) == EndsWith(T, QUE)

PrefixOf(T) == SubSeq(T, 1, Len(T) - Len(QUE))

\* " que" at offset e of s
QueAt(s, e) ==
    /\ e + 4 <= Len(s)
    /\ s[e + 1] = " "
    /\ Fold(s[e + 2]) = "q" /\ Fold(s[e + 3]) = "u" /\ Fold(s[e + 4]) = "e"

\* " qu'" at offset e of s
ElisionAt(s, e) ==
    /\ e + 4 <= Len(s)
    /\ s[e + 1] = " "
    /\ Fold(s[e + 2]) = "q" /\ Fold(s[e + 3]) = "u" /\ s[e + 4] = "'"

\* An occurrence, at offset i of s, of the prefix P followed by " que" or by
\* " qu'" (and word characters)
OccursAt(P, s, i) ==
    \E e \in i..Len(s) : PhraseExpands(P, s, i, e) /\ (QueAt(s, e) \/ ElisionAt(s, e))

\* The raw triplets of entry j of article a
TripletsOfEntry(a, j) ==
    {k \in 1..Len(raw_matches) : raw_matches[k].article = a /\ raw_matches[k].entry = j}

\* The span [st, en) of s ends with whitespace and "que", or with whitespace,
\* "qu'" and all the word characters that follow it.
EndsElided(s, st, en) ==
    \/ /\ st <= en - 4
       /\ IsSpace(s[en - 3])
       /\ Fold(s[en - 2]) = "q" /\ Fold(s[en - 1]) = "u" /\ Fold(s[en]) = "e"
    \/ \E q \in st..(en - 4) :
         /\ IsSpace(s[q + 1])
         /\ Fold(s[q + 2]) = "q" /\ Fold(s[q + 3]) = "u" /\ s[q + 4] = "'"
         /\ \A x \in (q + 5)..en : IsWord(s[x])
         /\ ~(en < Len(s) /\ IsWord(s[en + 1]))

\* C10 as stated: for a phrase ending in " que" (here with a literal prefix),
\* a match begins at every narrative occurrence of the prefix followed by
\* " que" or " qu'".
C10_EveryOccurrenceMatched ==
    \A a \in 1..(art_i - 1) :
      \A j \in 1..Len(articles[a].transitions_list) :
        LET T == articles[a].transitions_list[j]
            s == articles[a].narrative_paragraph
        IN (EndsWithQue(T) /\ ~Contains(T, PLACEHOLDER)) =>
             \A i \in 0..Len(s) :
               OccursAt(PrefixOf(T), s, i) =>
                 \E k \in TripletsOfEntry(a, j) : raw_matches[k].start = i

\* C10, amended: for a phrase ending in " que", a match begins at every
\* narrative occurrence of the prefix followed by " que" or " qu'", unless
\* the occurrence begins inside the span of an earlier match of the phrase;
\* every match of the phrase ends with "que" or with "qu'" and all the word
\* characters after it, and paragraph_b is the trimmed text after the span.
C10_ElisionMatched ==
    /\ \A a \in 1..(art_i - 1) :
         \A j \in 1..Len(articles[a].transitions_list) :
           LET T == articles[a].transitions_list[j]
               s == articles[a].narrative_paragraph
           IN EndsWithQue(T) =>
                \A i \in 0..Len(s) :
                  OccursAt(PrefixOf(T), s, i) =>
                    \E k \in TripletsOfEntry(a, j) :
                      \/ raw_matches[k].start = i
                      \/ raw_matches[k].start < i /\ i < raw_matches[k].end
    /\ \A k \in 1..Len(all_raw_triplets) :
         EndsWithQue(PhraseOf(k)) =>
           /\ EndsElided(NarrativeOf(k), raw_matches[k].start, raw_matches[k].end)
           /\ all_raw_triplets[k].paragraph_b =
                Strip(SubSeq(NarrativeOf(k), raw_matches[k].end + 1, Len(NarrativeOf(k))))

\* "a que" matched "a qu'b" (the contracted word included in the span) and
\* paragraph_b is the text after it.
C10_Witness ==
    \E k \in 1..Len(all_raw_triplets) :
      /\ PhraseOf(k) = PH_A_QUE
      /\ MatchedText(k) = <<"a", " ", "q", "u", "'", "b">>
      /\ all_raw_triplets[k].paragraph_b = <<"b">>

\* The offsets at which a run of non-comma characters from offset p can end
Runs(s, p) == {q \in p..Len(s) : \A x \in (p + 1)..q : s[x] /= ","}

\* The offsets e for which s[q:e] is a whitespace character and "que", or a
\* whitespace character, "qu'" and word characters
ElidedTailEnds(s, q) ==
    {e \in (q + 4)..Len(s) :
       /\ IsSpace(s[q + 1])
       /\ Fold(s[q + 2]) = "q" /\ Fold(s[q + 3]) = "u"
       /\ \/ e = q + 4 /\ Fold(s[q + 4]) = "e"
          \/ s[q + 4] = "'" /\ \A x \in (q + 5)..e : IsWord(s[x])}

SetMax(S) == CHOOSE x \in S : \A y \in S : y <= x

\* The offsets e for which s[p:e] is the phrase text P (case-insensitively)
\* with every [XXX] replaced by a run of non-comma characters, followed, when
\* tail is set, by an elided " que".
RECURSIVE Ends(_, _, _, _)
Ends(P, tail, s, p) ==
    IF P = << >> THEN (IF tail THEN ElidedTailEnds(s, p) ELSE {p})
    ELSE IF StartsWithAt(P, PLACEHOLDER, 0)
         THEN UNION {Ends(SubSeq(P, Len(PLACEHOLDER) + 1, Len(P)), tail, s, q) :
                       q \in Runs(s, p)}
    ELSE IF p < Len(s) /\ Fold(s[p + 1]) = Fold(Head(P))
         THEN Ends(Tail(P), tail, s, p + 1)
    ELSE {}

\* The end of the span from offset p in which every run, taken in phrase
\* order, is the longest that lets the rest of the phrase match (defined
\* where Ends(P, tail, s, p) is not empty).
RECURSIVE GreedyEnd(_, _, _, _)
GreedyEnd(P, tail, s, p) ==
    IF P = << >> THEN (IF tail THEN SetMax(ElidedTailEnds(s, p)) ELSE p)
    ELSE IF StartsWithAt(P, PLACEHOLDER, 0)
         THEN LET rest == SubSeq(P, Len(PLACEHOLDER) + 1, Len(P))
              IN GreedyEnd(rest, tail, s,
                           SetMax({q \in Runs(s, p) : Ends(rest, tail, s, q) /= {}}))
    ELSE GreedyEnd(Tail(P), tail, s, p + 1)

\* For every processed phrase containing [XXX]: each match is the greedy
\* expansion of the phrase from its start; a match begins wherever an
\* expansion begins, unless that offset lies inside an earlier match; the
\* matches of the phrase go left to right without overlap.  With elision
\* set, the final " que" of a phrase is read as the elision variant.
PlaceholderMatching(elision) ==
    \A a \in 1..(art_i - 1) :
      \A j \in 1..Len(articles[a].transitions_list) :
        LET T == articles[a].transitions_list[j]
            s == articles[a].narrative_paragraph
            tail == elision /\ EndsWithQue(T)
            P == IF tail THEN PrefixOf(T) ELSE T
        IN Contains(T, PLACEHOLDER) =>
             /\ \A k \in TripletsOfEntry(a, j) :
                  /\ Ends(P, tail, s, raw_matches[k].start) /= {}
                  /\ raw_matches[k].end = GreedyEnd(P, tail, s, raw_matches[k].start)
             /\ \A i \in 0..Len(s) :
                  Ends(P, tail, s, i) /= {} =>
                    \E k \in TripletsOfEntry(a, j) :
                      \/ raw_matches[k].start = i
                      \/ raw_matches[k].start < i /\ i < raw_matches[k].end
             /\ \A k, l \in TripletsOfEntry(a, j) :
                  k < l => ComesBefore(raw_matches[k], raw_matches[l])

\* C11 as stated: for a phrase containing [XXX], the matched spans are exactly
\* the phrase (case-insensitively) with every [XXX] replaced by a greedy run
\* of non-comma characters and every other character matched literally,
\* found left to right without overlap.
C11_PlaceholderLiteral == PlaceholderMatching(FALSE)

\* C11, amended: for a phrase containing [XXX], the matched spans are exactly
\* the phrase (case-insensitively) with every [XXX] replaced by a greedy run
\* of non-comma characters and, when the phrase ends in " que", that ending
\* replaced by a whitespace character and "que" or by a whitespace character,
\* "qu'" and the word characters after it; every other character is matched
\* literally, and the matches are found left to right without overlap.
C11_PlaceholderElided == PlaceholderMatching(TRUE)

\* From the narrative "a que," the phrase "a[XXX]," matched "a que," (the
\* placeholder standing for " que") and the phrase "[XXX]" matched "a que"
\* (the whole run up to the comma, not a shorter one).
C11_Witness ==
    \E k, l \in 1..Len(all_raw_triplets) :
      /\ raw_matches[k].article = raw_matches[l].article
      /\ PhraseOf(k) = PH_A_XXX_COMMA
      /\ MatchedText(k) = PH_A_QUE \o <<",">>
      /\ PhraseOf(l) = PH_XXX
      /\ MatchedText(l) = PH_A_QUE

(***************************************************************************)
(* Properties of the pipeline (Spec)                                       *)
(***************************************************************************)

Text(i) == Strip(paragraphs[i])

MarkerNos == {i \in 1..Len(paragraphs) : IsMarkerLine(Text(i))}

\* The number of the first marker line (past the end if there is none)
FirstMarkerNo ==
    IF MarkerNos = {} THEN Len(paragraphs) + 1
    ELSE CHOOSE i \in MarkerNos : \A j \in MarkerNos : i <= j

\* extract_articles_from_docx has returned.
ArticlesReturned == pc \notin {"load", "segment", "parse"}

\* Each article holds the stripped text of the paragraphs it was read from.
ArticlesAreTheirSources ==
    /\ Len(article_sources) = Len(articles)
    /\ \A k \in 1..Len(articles) :
         /\ articles[k].narrative_paragraph = Text(article_sources[k].narrative)
         /\ Len(articles[k].transitions_list) = Len(article_sources[k].transitions)
         /\ \A j \in 1..Len(articles[k].transitions_list) :
              articles[k].transitions_list[j] = Text(article_sources[k].transitions[j])

\* C4: no article has its narrative paragraph or a transition read from a
\* paragraph that precedes the first marker line.
C4_PreambleNeverAnArticle ==
    (doc_opens /\ ArticlesReturned) =>
      /\ ArticlesAreTheirSources
      /\ \A k \in 1..Len(article_sources) :
           /\ article_sources[k].narrative > FirstMarkerNo
           /\ \A j \in 1..Len(article_sources[k].transitions) :
                article_sources[k].transitions[j] > FirstMarkerNo

\* A document whose preamble has two text lines (as an article block has),
\* and from which an article was read.
C4_Witness ==
    /\ doc_opens /\ ArticlesReturned
    /\ FirstMarkerNo = 3
    /\ Text(1) /= << >> /\ Text(2) /= << >>
    /\ Len(articles) = 1

\* The numbers in I, in increasing order
InOrder(I) ==
    [k \in 1..Cardinality(I) |-> CHOOSE i \in I : Cardinality({j \in I : j <= i}) = k]

\* The text paragraphs between marker line i and the next marker line (or the
\* end of the document)
BlockAfter(i) ==
    InOrder({x \in (i + 1)..Len(paragraphs) :
               /\ Text(x) /= << >>
               /\ \A m \in (i + 1)..x : m \notin MarkerNos})

\* C5: every marker line followed by at least two text paragraphs (before the
\* next marker line or the end) gives an article whose narrative is the first
\* of them and whose transitions are the others, in order.
C5_EveryMarkedBlockIsAnArticle ==
    (doc_opens /\ ArticlesReturned) =>
      \A i \in MarkerNos :
        Len(BlockAfter(i)) >= 2 =>
          \E k \in 1..Len(article_sources) :
            /\ article_sources[k].narrative = BlockAfter(i)[1]
            /\ article_sources[k].transitions = Tail(BlockAfter(i))
            /\ articles[k].narrative_paragraph = Text(BlockAfter(i)[1])

\* C7: when the document cannot be opened, there are no articles and the
\* caller of the pipeline gets an error, not a results summary.
C7_LoadFailureIsAnError ==
    (~doc_opens /\ pc = "done") =>
      /\ articles = << >>
      /\ result.kind = "error"

FileOf(k) == files[OUTPUT_ORDER[k]]

OutputBlocks == 1..Len(OUTPUT_ORDER)

\* generate_output_files raised (in os.makedirs or in an output block).
GenerateFailed == out_k <= Len(OUTPUT_ORDER)

C8_State ==
    \* fixed order; nothing is produced after the block that failed
    /\ \A k \in OutputBlocks :
         FileOf(k) /= "absent" =>
           \/ k < out_k
           \/ k = out_k /\ FileOf(k) = "partial" /\ pc \in {"raised", "done"}
    /\ \A k \in OutputBlocks : k < out_k => FileOf(k) /= "partial"
    \* the caller gets an error exactly when a block (or makedirs) failed
    /\ pc = "done" => (result.kind = "error" <=> GenerateFailed)
    /\ (pc = "done" /\ result.kind = "summary") =>
         \A k \in OutputBlocks :
           OpensFile(k, selected_outputs, all_raw_triplets, final_triplets,
                     transition_usage_tracker, duplicates_tracker)
             => FileOf(k) = "written"

C8_Step ==
    \* a file changes only in its own block
    /\ \A k \in OutputBlocks : FileOf(k)' /= FileOf(k) => (k = out_k /\ pc = "out")
    \* no rollback
    /\ \A k \in OutputBlocks : FileOf(k) = "written" => FileOf(k)' = "written"
    \* no retry: after the failure the error goes to the caller
    /\ pc = "raised" => (pc' = "done" /\ result'.kind = "error" /\ out_k' = out_k)

\* C8: the output representations are produced in the fixed order; when a
\* block fails, what was produced before stays, nothing is produced after,
\* nothing is retried, and the caller gets an error instead of a summary.
C8_OutputFailure == []C8_State /\ [][C8_Step]_vars

\* The third block failed in the middle of its write: the first two files
\* are in place, the later ones absent, and the caller has an error.
C8_Witness ==
    /\ pc = "done"
    /\ result.kind = "error"
    /\ out_k = 3
    /\ FileOf(1) = "written" /\ FileOf(2) = "written" /\ FileOf(3) = "partial"
    /\ \A k \in 4..6 : FileOf(k) = "absent"

\* The segmenter loop and the flush after it have just run on an opened
\* document (the blocks are not assigned again afterwards).
SegmenterDone == doc_opens /\ pc = "parse"

\* The numbers of the stream's paragraphs that contain the marker
MarkerLineNos == {i \in 1..Len(paragraphs) : Contains(Text(i), MARKER)}

\* The numbers of the stream's non-empty non-marker paragraphs
ContentNos == {i \in 1..Len(paragraphs) : Text(i) /= << >> /\ i \notin MarkerLineNos}

\* The number of lines in the first b blocks
RECURSIVE LinesThrough(_)
LinesThrough(b) == IF b = 0 THEN 0 ELSE LinesThrough(b - 1) + Len(all_raw_blocks[b])

\* The block holding line k of the concatenation of the blocks
BlockOfLine(k) ==
    CHOOSE b \in 1..Len(all_raw_blocks) : LinesThrough(b - 1) < k /\ k <= LinesThrough(b)

\* C12: the raw blocks of the segmenter: no block is empty; no line of a
\* block is empty or contains the marker; the blocks concatenated in order
\* are the stream's non-empty non-marker paragraphs in order; two lines are
\* in the same block exactly when no marker line lies between them in the
\* stream.
C12_SegmenterBlocks ==
    SegmenterDone =>
      /\ \A b \in 1..Len(all_raw_blocks) : all_raw_blocks[b] /= << >>
      /\ \A b \in 1..Len(all_raw_blocks) :
           \A l \in 1..Len(all_raw_blocks[b]) :
             /\ all_raw_blocks[b][l] /= << >>
             /\ ~Contains(all_raw_blocks[b][l], MARKER)
      /\ Glue(all_raw_blocks) =
           [k \in 1..Cardinality(ContentNos) |-> Text(InOrder(ContentNos)[k])]
      /\ \A k, l \in 1..Cardinality(ContentNos) :
           k < l =>
             (BlockOfLine(k) = BlockOfLine(l)
                <=> ~\E m \in MarkerLineNos :
                       InOrder(ContentNos)[k] < m /\ m < InOrder(ContentNos)[l])

\* A document of a one-line block, two marker lines in a row and a two-line
\* block: the segmenter gave two blocks.
C12_Witness ==
    /\ SegmenterDone
    /\ Len(all_raw_blocks) = 2
    /\ \E i \in 1..(Len(paragraphs) - 1) : {i, i + 1} \subseteq MarkerLineNos
    /\ \E b \in 1..2 : Len(all_raw_blocks[b]) = 2

====
